---- MODULE Spec2Model ----
(***************************************************************************)
(* Model of the graph-driven provisioning engine:                          *)
(*   services/langgraph.py       execute_graph, build_default_terraform_graph *)
(*   services/terraform_exec.py  make_callbacks (init/plan/apply/heal),      *)
(*                               run_terraform                               *)
(* One action is one whole step of the code: a call's prologue or one      *)
(* iteration of the executor's while loop, the callback it invokes         *)
(* included.                                                               *)
(***************************************************************************)
EXTENDS Integers, Sequences, FiniteSets, TLC

(***************************************************************************)
(* Bounds of the model.                                                    *)
(***************************************************************************)
\* largest explicit heal limit tried as attempt_limit / metadata.max_attempts
MaxLimit == 2
\* longest attempt log explored (only graphs with a heal-free cycle reach it)
MaxVisits == 13

(***************************************************************************)
(* Python values.  A missing key, None and a string are kept apart.        *)
(***************************************************************************)
Absent == "<absent>"
None == "<None>"
EmptyStr == ""
\* artifact texts (Terraform code)
Artifacts == {"tfA", "tfB"}

\* langgraph.py:140, "x or y": None, 0 and a missing key are all falsy; the
\* model writes 0 for every falsy limit.
DEFAULT_MAX_ATTEMPTS == 3
LimitValues == 0 .. MaxLimit

(***************************************************************************)
(* Graphs.  nodes and edges are sequences: declaration order matters.      *)
(* start = Absent models a graph without metadata.start.                   *)
(***************************************************************************)
N(id, type) == [id |-> id, type |-> type]
E(from, to, cond) == [from |-> from, to |-> to, condition |-> cond]

build_default_terraform_graph ==
    [ start |-> "INIT",
      max_attempts |-> 3,
      nodes |-> << N("INIT", "init"), N("PLAN", "plan"), N("APPLY", "apply"),
                   N("HEAL", "heal"), N("END", "end") >>,
      edges |-> << E("INIT", "PLAN", "always"),
                   E("PLAN", "APPLY", "success"),
                   E("PLAN", "HEAL", "failure"),
                   E("APPLY", "END", "success"),
                   E("APPLY", "HEAL", "failure"),
                   E("HEAL", "PLAN", "always") >> ]

\* two edges of A match every result: declaration order has to decide
AmbiguousGraph ==
    [ start |-> Absent,
      max_attempts |-> 0,
      nodes |-> << N("A", "plan"), N("B", "apply"), N("C", "init"), N("END", "END") >>,
      edges |-> << E("A", "B", "success"),
                   E("A", "C", "always"),
                   E("A", "END", "failure"),
                   E("B", "END", Absent),
                   E("C", "END", "Always") >> ]

\* a cycle A -> B -> A that passes through no heal node
HealFreeCycleGraph ==
    [ start |-> "A",
      max_attempts |-> 0,
      nodes |-> << N("A", "plan"), N("B", "apply"), N("END", "end") >>,
      edges |-> << E("A", "B", "always"),
                   E("B", "END", "success"),
                   E("B", "A", "failure") >> ]

\* an edge to, and an edge from, a node that is not declared
DanglingEdgeGraph ==
    [ start |-> "A",
      max_attempts |-> 0,
      nodes |-> << N("A", "plan"), N("END", "end") >>,
      edges |-> << E("GHOST", "END", "always"),
                   E("A", "GHOST", "failure"),
                   E("A", "END", "success") >> ]

\* a node type nobody registered, and a node without outgoing failure edge
CustomTypeGraph ==
    [ start |-> "A",
      max_attempts |-> 0,
      nodes |-> << N("A", "init"), N("B", "plan"), N("X", "custom"), N("END", "end") >>,
      edges |-> << E("A", "B", "always"),
                   E("B", "X", "success"),
                   E("B", "END", "maybe"),
                   E("X", "END", "always") >> ]

\* heal node first, heal loop through a worker
HealLoopGraph ==
    [ start |-> Absent,
      max_attempts |-> 0,
      nodes |-> << N("H", "Heal"), N("W", "apply"), N("END", "end") >>,
      edges |-> << E("H", "W", "always"),
                   E("W", "END", "success"),
                   E("W", "H", "failure") >> ]

\* a heal node without outgoing edge
HealDeadEndGraph ==
    [ start |-> "H",
      max_attempts |-> 0,
      nodes |-> << N("H", "heal"), N("END", "end") >>,
      edges |-> << E("END", "H", "always") >> ]

BadStartGraph ==
    [ start |-> "NOPE",
      max_attempts |-> 0,
      nodes |-> << N("A", "plan"), N("END", "end") >>,
      edges |-> << E("A", "END", "always") >> ]

EmptyGraph ==
    [ start |-> Absent, max_attempts |-> 0, nodes |-> << >>, edges |-> << >> ]

BaseGraphs ==
    { build_default_terraform_graph, AmbiguousGraph, HealFreeCycleGraph,
      DanglingEdgeGraph, CustomTypeGraph, HealLoopGraph, HealDeadEndGraph,
      BadStartGraph, EmptyGraph }

\* every base graph, with every metadata.max_attempts of LimitValues
\* (the default graph also as declared, with 3)
Graphs ==
    { [g EXCEPT !.max_attempts = m] : g \in BaseGraphs, m \in LimitValues }
      \cup { build_default_terraform_graph }

\* str.lower() on the node types and conditions the graphs use
Lower(s) ==
    CASE s = "END" -> "end"
      [] s = "Heal" -> "heal"
      [] s = "Always" -> "always"
      [] OTHER -> s

(***************************************************************************)
(* State.                                                                  *)
(***************************************************************************)
VARIABLES
    pc,             \* "idle" | "running" | "returned" | "raised" | "finished"
    graph,          \* execute_graph's graph argument
    callbacks,      \* [kind, types, parallelism]: the registry and its callables
    context,        \* initial_context: [tf, last_attempt]
    max_attempts,   \* langgraph.py:140
    current,        \* langgraph.py:145
    attempts,       \* langgraph.py:146
    heal_cycles,    \* langgraph.py:147
    report,         \* the returned dict, NoReport until a return
    raised,         \* the exception that left execute_graph, None if none
    attempt_limit,  \* execute_graph's attempt_limit argument (0: None)
    caller,         \* "direct" | "run_terraform": who called execute_graph
    workdir,        \* run_terraform's workdir (the resolved workspace path)
    session,        \* st.session_state, the keys the engine uses
    files,          \* workspace path -> content of its main.tf
    listing,        \* workspace path -> the names of the files in it
    healVisits,     \* history: callback invocations on heal-typed nodes, this run
    cbCalls,        \* history: callback invocations, this run
    ext,            \* history: external invocations made by the last callback
    visited,        \* history: the (node, heal_cycles) pairs visited, this run
    lastInit,       \* history: the most recent visit of the canonical Init
                    \*          since the recorded workspace was last changed
    initialized,    \* history: the artifact terraform init last succeeded on
                    \*          in the recorded workspace, None if none
    runs,           \* browser session -> its run_terraform call on WORKSPACE_DIR
    main_tf,        \* content of MAIN_TF_PATH, the file the sessions share
    lastWriter,     \* history: the session that wrote MAIN_TF_PATH last, 0 if none
    pipeline_stages, \* st.session_state.pipeline_stages: the status of each stage
    mode,           \* run_pipeline's mode argument
    idx,            \* engine.py:88, the position of run_pipeline's loop
    ppc,            \* run_pipeline: "idle" | "loop" | "returned" | "escaped"
    executed,       \* history: the positions this call of run_pipeline executed
    entry           \* history: the statuses when this call of run_pipeline began

execVars == << graph, callbacks, context, max_attempts, current, attempts,
               heal_cycles, report, raised, attempt_limit, caller >>
envVars == << workdir, session, files, listing >>
runHist == << healVisits, cbCalls, ext, visited >>
initHist == << lastInit, initialized >>
histVars == << runHist, initHist >>
raceVars == << runs, main_tf, lastWriter >>
pipeVars == << pipeline_stages, mode, idx, ppc, executed, entry >>
sideVars == << raceVars, pipeVars >>
vars == << pc, execVars, envVars, histVars, sideVars >>

\* the "error" entry of a returned dict: the message and the value its
\* f-string names; NoError for a dict without the key
Error(msg, arg) == [msg |-> msg, arg |-> arg]
NoError == Error(Absent, Absent)
NoReport == [success |-> FALSE, attempts |-> << >>, error |-> Error("<no report>", Absent)]
NoResult == [stage |-> None, success |-> FALSE, stdout |-> "", stderr |-> "",
             tf |-> Absent, tf_code |-> Absent, returncode |-> {},
             detailed_exit_code |-> {}]

(***************************************************************************)
(* execute_graph, lines 137-143: the prologue.                             *)
(***************************************************************************)
\* nodes = {n["id"]: n for n in graph.get("nodes", [])}
NodeIds(g) == { g.nodes[i].id : i \in 1 .. Len(g.nodes) }
\* nodes[id]: the last declaration of an id wins in the dict comprehension
NodeOf(g, id) ==
    g.nodes[CHOOSE i \in 1 .. Len(g.nodes) :
                /\ g.nodes[i].id = id
                /\ \A j \in (i + 1) .. Len(g.nodes) : g.nodes[j].id # id]
\* node.get("type", "unknown").lower()
NodeType(g, id) == Lower(NodeOf(g, id).type)

StartNode_IgnoresMetadata(g) ==
    IF Len(g.nodes) > 0 THEN g.nodes[1].id ELSE None

\* langgraph.py:139
StartNode(g) ==
    IF g.start # Absent /\ g.start # EmptyStr THEN g.start
    ELSE IF Len(g.nodes) > 0 THEN g.nodes[1].id
    ELSE None

EffectiveLimit_FallbackSwapped(limit, g) ==
    IF g.max_attempts # 0 THEN g.max_attempts
    ELSE IF limit # 0 THEN limit
    ELSE DEFAULT_MAX_ATTEMPTS

\* langgraph.py:140  attempt_limit or metadata.max_attempts or 3
EffectiveLimit(limit, g) ==
    IF limit # 0 THEN limit
    ELSE IF g.max_attempts # 0 THEN g.max_attempts
    ELSE DEFAULT_MAX_ATTEMPTS

(***************************************************************************)
(* The environment of run_terraform: session state, workspace, tools.      *)
(***************************************************************************)
MAX_HEALING_ATTEMPTS == 3
DEFAULT_PARALLELISM == 20
PARALLELISM_FLOOR == 10
DEFAULT_FAST_MODE == TRUE

\* str(workdir.resolve()): the paths WORKSPACE_DIR can resolve to
Workdirs == {"/srv/a/generated/workspace", "/srv/b/generated/workspace"}

\* what the cleaned oracle answer can be when it is no artifact: the text of
\* call_claude's error return (bedrock.py:31,51,54,57)
ErrText == "Bedrock error text"

\* terraform_exec.py:64-66, sha256 hex digest: injective on the texts used
_content_hash(text) == << "sha256", text >>
NoHash == << >>

\* terraform_exec.py:54-59 and 291-292: the stderr texts the code looks for
THROTTLE_PATTERNS == {"Throttling", "Rate exceeded", "RequestLimitExceeded", "TooManyRequests"}
LockSignatures == {"Provider dependency changes detected", "lock file is read-only"}

\* "pat in stderr": the looked-for substrings a stderr text contains.  The
\* test is case-sensitive; a text that is a signature contains itself.
ThrottledText == "Error: Throttling: Rate exceeded"
LowerCaseText == "error: throttling"
Fragments(text) ==
    CASE text = ThrottledText -> {"Throttling", "Rate exceeded"}
      [] text = LowerCaseText -> {}
      [] text = EmptyStr -> {}
      [] OTHER -> {text}

\* What one external process run can do: exit with a code and a stderr, or
\* exceed timeout_sec (subprocess.run raises TimeoutExpired).
Exit(rc, stderr) == [timeout |-> FALSE, rc |-> rc, stderr |-> stderr]
TimedOut == [timeout |-> TRUE, rc |-> 1, stderr |-> ""]

\* The tools of one environment: what terraform init / plan / apply can do
\* and what the cleaned answer of the repair oracle can be.
PlainTools ==
    [ init |-> { Exit(0, ""), Exit(1, "Error: init"),
                 Exit(1, "Provider dependency changes detected"), TimedOut },
      plan |-> { Exit(0, ""), Exit(2, ""), Exit(1, "Error: plan"), TimedOut },
      apply |-> { Exit(0, ""), Exit(1, "Error: apply"), TimedOut },
      oracle |-> Artifacts ]
\* an environment in which the repair oracle can fail: call_claude then
\* returns its error text, which clean_terraform_code leaves as it is
OracleTools ==
    [ init |-> { Exit(0, ""), Exit(1, "Error: init") },
      plan |-> { Exit(0, ""), Exit(2, ""), Exit(1, "Error: plan") },
      apply |-> { Exit(0, ""), Exit(1, "Error: apply") },
      oracle |-> Artifacts \cup { ErrText } ]
\* an environment whose provider throttles: plan and apply can write a
\* rate-limit message to stderr, also when they succeed
ThrottleTools ==
    [ init |-> { Exit(0, ""), Exit(1, ThrottledText) },
      plan |-> { Exit(0, ""), Exit(2, ""), Exit(2, ThrottledText),
                 Exit(1, "Error: plan"), Exit(1, ThrottledText), Exit(1, LowerCaseText) },
      apply |-> { Exit(0, ""), Exit(1, "Error: apply"), Exit(1, "TooManyRequests") },
      oracle |-> { "tfA" } ]
\* direct calls of execute_graph with stub callables use no tool
NoTools == [ init |-> {}, plan |-> {}, apply |-> {}, oracle |-> {} ]

\* one external invocation, as the tool sees it: the command, the main.tf of
\* the working directory and -parallelism (0 where the flag is not passed)
ExtCall(cmd, tf, par) == [cmd |-> cmd, tf |-> tf, par |-> par]
\* one call of the repair oracle: the artifact in its prompt and its cleaned
\* answer (terraform_exec.py:445-446)
OracleCall(tf, cleaned) == [cmd |-> "oracle", tf |-> tf, par |-> 0, answer |-> cleaned]

maybe_reduce_parallelism_AnyStderr(sess, stderr) ==
    IF stderr # EmptyStr /\ sess.tf_parallelism > PARALLELISM_FLOOR
    THEN [sess EXCEPT !.tf_parallelism = PARALLELISM_FLOOR]
    ELSE sess

\* terraform_exec.py:69-77
maybe_reduce_parallelism(sess, stderr) ==
    IF /\ stderr # EmptyStr
       /\ Fragments(stderr) \cap THROTTLE_PATTERNS # {}
       /\ sess.tf_parallelism > PARALLELISM_FLOOR
    THEN [sess EXCEPT !.tf_parallelism = PARALLELISM_FLOOR]
    ELSE sess

\* terraform_exec.py:249-253: sanitize, then (re)write main.tf
write_tf(fs, wd, tf) == [fs EXCEPT ![wd] = tf]

\* terraform_exec.py:45-50
SAFE_KEEP == {"main.tf", ".terraform.lock.hcl", "terraform.tfstate", "terraform.tfstate.backup"}
\* the names that can be found in a workspace besides main.tf: the tool's
\* lock and state files, and artifact files from elsewhere.  pinned.tf is
\* an entry whose unlink() raises (no permission, or a directory).
WorkspaceNames == {".terraform.lock.hcl", "terraform.tfstate", "extra.tf", "vars.tf.json",
                   "pinned.tf"}
Unremovable == {"pinned.tf"}
\* workdir.glob("*.tf"), workdir.glob("*.tf.json")
GlobArtifacts(names) == names \cap {"main.tf", "extra.tf", "vars.tf.json", "pinned.tf"}

\* terraform_exec.py:80-98: unlink every globbed name outside SAFE_KEEP; an
\* unlink that raises is logged and the entry stays
sanitize_workspace(names) ==
    names \ { n \in GlobArtifacts(names) : n \notin SAFE_KEEP /\ n \notin Unremovable }

\* terraform_exec.py:249-253 and 488-490, on the directory listing
write_listing(ls, wd) == [ls EXCEPT ![wd] = sanitize_workspace(@) \cup {"main.tf"}]

\* terraform_exec.py:213-236: the result dict of a process that exited
run_stage(stage_name, tf, x) ==
    [ NoResult EXCEPT
        !.stage = stage_name,
        !.success = (x.rc = 0),
        !.stderr = x.stderr,
        !.tf = tf,
        !.returncode = {x.rc} ]

(***************************************************************************)
(* Callbacks.  A callback invocation either raises or returns a result;    *)
(* an outcome is [raised, res, sess, fs, ext]: the result, the session and *)
(* the files it leaves, and the external invocations it made.              *)
(***************************************************************************)
Outcome(exc, res, sess, fs, calls) ==
    [raised |-> exc, res |-> res, sess |-> sess, fs |-> fs, ext |-> calls]

StubTypes == {"init", "plan", "apply", "heal"}

\* Caller-supplied callables: each returns a result of a fixed shape for its
\* type and may succeed, fail or raise.  init returns no tf key, plan
\* returns tf None, apply returns the tf_code alias, heal returns a new tf.
StubResult(type, ok) ==
    [ NoResult EXCEPT
        !.stage = type,
        !.success = ok,
        !.tf = CASE type = "plan" -> None
                 [] type = "heal" -> "tfB"
                 [] OTHER -> Absent,
        !.tf_code = CASE type = "apply" -> (IF ok THEN "tfA" ELSE None)
                      [] OTHER -> Absent ]

StubOutcomes(type, sess, fs) ==
    { Outcome(FALSE, StubResult(type, ok), sess, fs, << >>) : ok \in BOOLEAN }
      \cup { Outcome(TRUE, NoResult, sess, fs, << >>) }

\* terraform_exec.py:264-272
InitSkipped(tf) ==
    [ NoResult EXCEPT !.stage = "init", !.success = TRUE,
                      !.stdout = "Init skipped (cached).", !.tf = tf ]

InitCacheHit_Inverted(sess, code_hash) == sess.init_done /\ sess.last_hash # code_hash

\* terraform_exec.py:264
InitCacheHit(sess, code_hash) == sess.init_done /\ sess.last_hash = code_hash

InitRecord_Always(res, sess, code_hash, fs, calls) ==
    Outcome(FALSE, res, [sess EXCEPT !.init_done = TRUE, !.last_hash = code_hash], fs, calls)

\* terraform_exec.py:307-311
InitRecord(res, sess, code_hash, fs, calls) ==
    Outcome(FALSE, res,
            IF res.success
            THEN [sess EXCEPT !.init_done = TRUE, !.last_hash = code_hash]
            ELSE sess,
            fs, calls)

init_cb_RetriesAnyFailure(ctx, sess, fs, wd, tools) ==
    LET tf_code == ctx.tf
        fs1 == write_tf(fs, wd, tf_code)
        code_hash == _content_hash(tf_code)
        c1 == ExtCall("init", fs1[wd], 0)
        c2 == ExtCall("init -upgrade", fs1[wd], 0)
        After(x) ==
            IF x.timeout THEN { Outcome(TRUE, NoResult, sess, fs1, << c1 >>) }
            ELSE LET res == run_stage("init", tf_code, x) IN
                 IF ~res.success
                 THEN { IF y.timeout
                        THEN Outcome(TRUE, NoResult, sess, fs1, << c1, c2 >>)
                        ELSE InitRecord(run_stage("init (retry)", tf_code, y),
                                        sess, code_hash, fs1, << c1, c2 >>)
                        : y \in tools.init }
                 ELSE { InitRecord(res, sess, code_hash, fs1, << c1 >>) }
    IN  IF InitCacheHit(sess, code_hash)
        THEN { Outcome(FALSE, InitSkipped(tf_code), sess, fs1, << >>) }
        ELSE UNION { After(x) : x \in tools.init }

\* terraform_exec.py:255-311
init_cb(ctx, sess, fs, wd, tools) ==
    LET tf_code == ctx.tf
        fs1 == write_tf(fs, wd, tf_code)
        code_hash == _content_hash(tf_code)
        c1 == ExtCall("init", fs1[wd], 0)
        c2 == ExtCall("init -upgrade", fs1[wd], 0)
        After(x) ==
            IF x.timeout THEN { Outcome(TRUE, NoResult, sess, fs1, << c1 >>) }
            ELSE LET res == run_stage("init", tf_code, x) IN
                 IF ~res.success /\ Fragments(res.stderr) \cap LockSignatures # {}
                 THEN { IF y.timeout
                        THEN Outcome(TRUE, NoResult, sess, fs1, << c1, c2 >>)
                        ELSE InitRecord(run_stage("init (retry)", tf_code, y),
                                        sess, code_hash, fs1, << c1, c2 >>)
                        : y \in tools.init }
                 ELSE { InitRecord(res, sess, code_hash, fs1, << c1 >>) }
    IN  IF InitCacheHit(sess, code_hash)
        THEN { Outcome(FALSE, InitSkipped(tf_code), sess, fs1, << >>) }
        ELSE UNION { After(x) : x \in tools.init }

PlanResult_ZeroOnly(res) == [res EXCEPT !.detailed_exit_code = res.returncode]

\* terraform_exec.py:337-340
PlanResult(res) ==
    [res EXCEPT !.success = IF res.returncode \subseteq {0, 2} THEN TRUE ELSE @,
                !.detailed_exit_code = res.returncode]

plan_cb_ReadsHint(ctx, sess, fs, wd, par, tools) ==
    LET tf_code == ctx.tf
        fs1 == write_tf(fs, wd, tf_code)
        c == ExtCall("plan", fs1[wd], sess.tf_parallelism)
    IN  { IF x.timeout
          THEN Outcome(TRUE, NoResult, sess, fs1, << c >>)
          ELSE Outcome(FALSE, PlanResult(run_stage("plan", tf_code, x)),
                       maybe_reduce_parallelism(sess, x.stderr), fs1, << c >>)
          : x \in tools.plan }

\* terraform_exec.py:313-343
plan_cb(ctx, sess, fs, wd, par, tools) ==
    LET tf_code == ctx.tf
        fs1 == write_tf(fs, wd, tf_code)
        c == ExtCall("plan", fs1[wd], par)
    IN  { IF x.timeout
          THEN Outcome(TRUE, NoResult, sess, fs1, << c >>)
          ELSE Outcome(FALSE, PlanResult(run_stage("plan", tf_code, x)),
                       maybe_reduce_parallelism(sess, x.stderr), fs1, << c >>)
          : x \in tools.plan }

\* terraform_exec.py:357-363 and 379-385
ApplySkipped(tf, text) ==
    [ NoResult EXCEPT !.stage = "apply", !.success = TRUE, !.stdout = text, !.tf = tf ]

\* terraform_exec.py:388-401
ApplyExternal(tf_code, sess, fs, wd, par, before, tools) ==
    LET c == ExtCall("apply", fs[wd], par) IN
    { IF x.timeout
      THEN Outcome(TRUE, NoResult, sess, fs, Append(before, c))
      ELSE Outcome(FALSE, run_stage("apply", tf_code, x),
                   maybe_reduce_parallelism(sess, x.stderr), fs, Append(before, c))
      : x \in tools.apply }

apply_cb_AlwaysExternal(ctx, sess, fs, wd, par, tools) ==
    ApplyExternal(ctx.tf, sess, write_tf(fs, wd, ctx.tf), wd, par, << >>, tools)

\* terraform_exec.py:345-401
apply_cb(ctx, sess, fs, wd, par, tools) ==
    LET tf_code == ctx.tf
        fs1 == write_tf(fs, wd, tf_code)
        last_attempt == ctx.last_attempt
        AfterMicro(m) ==
            IF m.raised THEN { m }
            ELSE IF ~m.res.success
            THEN { Outcome(FALSE,
                           [ NoResult EXCEPT !.stage = "apply", !.success = FALSE,
                                             !.stdout = m.res.stdout,
                                             !.stderr = m.res.stderr, !.tf = tf_code ],
                           m.sess, m.fs, m.ext) }
            ELSE IF m.res.detailed_exit_code = {0}
            THEN { Outcome(FALSE, ApplySkipped(tf_code, "Apply skipped (no changes)."),
                           m.sess, m.fs, m.ext) }
            ELSE ApplyExternal(tf_code, m.sess, m.fs, wd, par, m.ext, tools)
    IN  IF last_attempt.stage = "plan" /\ last_attempt.detailed_exit_code = {0}
        THEN { Outcome(FALSE,
                       ApplySkipped(tf_code, "Apply skipped (no changes detected)."),
                       sess, fs1, << >>) }
        ELSE IF DEFAULT_FAST_MODE /\ last_attempt.stage # "plan"
        THEN UNION { AfterMicro(m) :
                       m \in plan_cb([tf |-> tf_code], sess, fs1, wd, par, tools) }
        ELSE ApplyExternal(tf_code, sess, fs1, wd, par, << >>, tools)

HealResult_Fails(text, tf) ==
    [ NoResult EXCEPT !.stage = "heal", !.success = FALSE, !.stdout = text, !.tf = tf ]

\* terraform_exec.py:412-418, 451-457, 465-471
HealResult(text, tf) ==
    [ NoResult EXCEPT !.stage = "heal", !.success = TRUE, !.stdout = text, !.tf = tf ]

heal_cb_AlwaysAsks(ctx, sess, fs, wd, tools) ==
    { IF cleaned = ctx.tf
      THEN Outcome(FALSE,
                   HealResult("Healing produced identical code; skipping.", ctx.tf),
                   sess, fs, << OracleCall(ctx.tf, cleaned) >>)
      ELSE Outcome(FALSE,
                   HealResult("Terraform code healed by Claude", cleaned),
                   sess, write_tf(fs, wd, cleaned), << OracleCall(ctx.tf, cleaned) >>)
      : cleaned \in tools.oracle }

\* terraform_exec.py:403-471
heal_cb(ctx, sess, fs, wd, tools) ==
    LET tf_code == ctx.tf
        last_attempt == ctx.last_attempt
        \* last_attempt.get("success", True), with {} for a None last_attempt
        last_ok == IF last_attempt = NoResult THEN TRUE ELSE last_attempt.success
    IN  IF last_ok
        THEN { Outcome(FALSE,
                       HealResult("No healing needed (last stage succeeded).", tf_code),
                       sess, fs, << >>) }
        ELSE { IF cleaned = tf_code
               THEN Outcome(FALSE,
                            HealResult("Healing produced identical code; skipping.", tf_code),
                            sess, fs, << OracleCall(tf_code, cleaned) >>)
               ELSE Outcome(FALSE,
                            HealResult("Terraform code healed by Claude", cleaned),
                            sess, write_tf(fs, wd, cleaned),
                            << OracleCall(tf_code, cleaned) >>)
               : cleaned \in tools.oracle }

\* whether the callback whose outcome is o called write_tf: init_cb, plan_cb
\* and apply_cb do so first thing (257, 315, 347), heal_cb when it adopts the
\* oracle's answer (463)
WritesArtifact(cbs, type, o) ==
    /\ cbs.kind = "terraform"
    /\ \/ type \in {"init", "plan", "apply"}
       \/ type = "heal" /\ ~o.raised /\ o.res.stdout = "Terraform code healed by Claude"

\* callbacks[node_type](initial_context), line 165
CallbackOutcomes(cbs, type, ctx, sess, fs, wd, tools) ==
    IF cbs.kind = "stub" THEN StubOutcomes(type, sess, fs)
    ELSE CASE type = "init" -> init_cb(ctx, sess, fs, wd, tools)
           [] type = "plan" -> plan_cb(ctx, sess, fs, wd, cbs.parallelism, tools)
           [] type = "apply" -> apply_cb(ctx, sess, fs, wd, cbs.parallelism, tools)
           [] type = "heal" -> heal_cb(ctx, sess, fs, wd, tools)

(***************************************************************************)
(* execute_graph, lines 164-200: the pieces of one loop iteration.         *)
(***************************************************************************)
\* langgraph.py:167-168
Normalize(res) ==
    IF res.tf = Absent /\ res.tf_code # Absent
    THEN [res EXCEPT !.tf = IF res.tf_code = None \/ res.tf_code = EmptyStr
                            THEN EmptyStr ELSE res.tf_code]
    ELSE res

MergeContext_KeepsArtifact(ctx, res) == [ctx EXCEPT !.last_attempt = res]

MergeContext_AdoptsNull(ctx, res) ==
    [ctx EXCEPT !.last_attempt = res,
                !.tf = IF res.tf # Absent THEN res.tf ELSE @]

\* langgraph.py:173-175
MergeContext(ctx, res) ==
    [ctx EXCEPT !.last_attempt = res,
                !.tf = IF res.tf # Absent /\ res.tf # None THEN res.tf ELSE @]

NextHealCycles_NeverCounts(type, cycles) == cycles

\* langgraph.py:178-179
NextHealCycles(type, cycles) == IF type = "heal" THEN cycles + 1 ELSE cycles

BudgetReached_StrictlyGreater(cycles, limit) == cycles > limit

\* langgraph.py:180
BudgetReached(cycles, limit) == cycles >= limit

EdgeMatches_UnknownIsAlways(e, res) ==
    LET cond == Lower(IF e.condition = Absent THEN "always" ELSE e.condition)
    IN  \/ cond \notin {"success", "failure"}
        \/ cond = "success" /\ res.success
        \/ cond = "failure" /\ ~res.success

EdgeMatches_SuccessIsFailure(e, res) ==
    LET cond == Lower(IF e.condition = Absent THEN "always" ELSE e.condition)
    IN  \/ cond = "always"
        \/ cond = "success" /\ ~res.success
        \/ cond = "failure" /\ res.success

\* langgraph.py:188-200: whether edge e, already known to leave the current
\* node, is taken for result res
EdgeMatches(e, res) ==
    LET cond == Lower(IF e.condition = Absent THEN "always" ELSE e.condition)
    IN  \/ cond = "always"
        \/ cond = "success" /\ res.success
        \/ cond = "failure" /\ ~res.success

NoRoute == "<no route>"

RECURSIVE RouteFrom(_, _, _, _)
RouteFrom(edges, i, cur, res) ==
    IF i > Len(edges) THEN NoRoute
    ELSE IF edges[i].from = cur /\ EdgeMatches(edges[i], res) THEN edges[i].to
    ELSE RouteFrom(edges, i + 1, cur, res)

RECURSIVE RouteFromLast(_, _, _, _)
RouteFromLast(edges, i, cur, res) ==
    IF i < 1 THEN NoRoute
    ELSE IF edges[i].from = cur /\ EdgeMatches(edges[i], res) THEN edges[i].to
    ELSE RouteFromLast(edges, i - 1, cur, res)

Route_LastMatchWins(edges, cur, res) == RouteFromLast(edges, Len(edges), cur, res)

\* langgraph.py:184-200: the for loop over edges, first match breaks
Route(edges, cur, res) == RouteFrom(edges, 1, cur, res)

Report_EmptyLog(ok, log, err) == [success |-> ok, attempts |-> << >>, error |-> err]

\* the dict execute_graph returns (final_context is the context itself)
Report(ok, log, err) == [success |-> ok, attempts |-> log, error |-> err]

NoInit == [visited |-> FALSE, workdir |-> None, tf |-> None, success |-> FALSE]

(***************************************************************************)
(* Actions.                                                                *)
(***************************************************************************)
\* two browser sessions of the one server process: each has its own
\* st.session_state, both use WORKSPACE_DIR (terraform_exec.py:31-37)
Sessions == {1, 2}
Other(s) == 3 - s
\* the external stages of a run on the default graph, in the order of its
\* success path
RunStages == << "init", "plan", "apply" >>
NoRun == [pc |-> "idle", tf |-> Absent, stage |-> 0, seen |-> << >>]

\* stages.py:27-49, the ids of DEFAULT_STAGES in list order
DEFAULT_STAGES ==
    << "check_identity", "list_s3_buckets", "bedrock_ping", "langgraph_provision" >>
\* state.py:6-8, every stage copied with status PENDING
init_pipeline_state == [i \in 1 .. Len(DEFAULT_STAGES) |-> "PENDING"]
\* pipeline_view.py:11 and 15
Modes == {"from_first_pending", "failed_only"}

Init ==
    /\ pc = "idle"
    /\ graph = EmptyGraph
    /\ callbacks = [kind |-> "stub", types |-> {}, parallelism |-> 0]
    /\ context = [tf |-> "tfA", last_attempt |-> NoResult]
    /\ max_attempts = 0
    /\ current = None
    /\ attempts = << >>
    /\ heal_cycles = 0
    /\ report = NoReport
    /\ raised = None
    /\ attempt_limit = 0
    /\ caller = "direct"
    /\ workdir = None
    /\ session = [ init_done |-> FALSE, last_hash |-> NoHash, tf_workspace |-> None,
                   tf_parallelism |-> DEFAULT_PARALLELISM ]
    /\ files = [wd \in Workdirs |-> Absent]
    /\ listing = [wd \in Workdirs |-> {}]
    /\ healVisits = 0
    /\ cbCalls = 0
    /\ ext = << >>
    /\ visited = {}
    /\ lastInit = NoInit
    /\ initialized = None
    /\ runs = [s \in Sessions |-> NoRun]
    /\ main_tf = Absent
    /\ lastWriter = 0
    /\ pipeline_stages = init_pipeline_state
    /\ mode = None
    /\ idx = 0
    /\ ppc = "idle"
    /\ executed = << >>
    /\ entry = init_pipeline_state

\* execute_graph lines 137-147, entered with graph g, registry cbs, context
\* ctx and attempt_limit limit
Enter(g, cbs, ctx, limit) ==
    /\ graph' = g
    /\ callbacks' = cbs
    /\ context' = ctx
    /\ attempt_limit' = limit
    /\ max_attempts' = EffectiveLimit(limit, g)
    /\ attempts' = << >>
    /\ heal_cycles' = 0
    /\ raised' = None
    /\ healVisits' = 0
    /\ cbCalls' = 0
    /\ ext' = << >>
    /\ visited' = {}
    /\ IF StartNode(g) = None \/ StartNode(g) \notin NodeIds(g)
       THEN /\ pc' = "returned"
            /\ current' = None
            /\ report' = Report(FALSE, << >>, Error("Invalid graph start node", Absent))
       ELSE /\ pc' = "running"
            /\ current' = StartNode(g)
            /\ report' = NoReport

\* a direct call of execute_graph with a registry of stub callables for
\* StubTypes and a fresh context
ExecuteGraph(g, limit) ==
    /\ UNCHANGED sideVars
    /\ pc \in {"idle", "returned", "raised", "finished"}
    /\ caller' = "direct"
    /\ Enter(g, [kind |-> "stub", types |-> StubTypes, parallelism |-> 0],
             [tf |-> "tfA", last_attempt |-> NoResult], limit)
    /\ UNCHANGED << envVars, initHist >>

\* the graphs run_terraform is given: none (the default graph), or one that
\* applies without a plan and re-initialises after a heal
ApplyFirstGraph ==
    [ start |-> "INIT",
      max_attempts |-> 2,
      nodes |-> << N("INIT", "init"), N("APPLY", "apply"),
                   N("HEAL", "heal"), N("END", "end") >>,
      edges |-> << E("INIT", "APPLY", "always"),
                   E("APPLY", "END", "success"),
                   E("APPLY", "HEAL", "failure"),
                   E("HEAL", "INIT", "always") >> ]

\* a graph that heals before and after every plan, whatever the plan did
HealFirstGraph ==
    [ start |-> Absent,
      max_attempts |-> 2,
      nodes |-> << N("HEAL", "heal"), N("PLAN", "plan"), N("END", "end") >>,
      edges |-> << E("HEAL", "PLAN", "always"),
                   E("PLAN", "HEAL", "always") >> ]

\* a graph whose heal node has a failure edge, declared before its success
\* edge
HealEdgesGraph ==
    [ start |-> "PLAN",
      max_attempts |-> 2,
      nodes |-> << N("PLAN", "plan"), N("HEAL", "heal"), N("END", "end") >>,
      edges |-> << E("PLAN", "END", "success"),
                   E("PLAN", "HEAL", "failure"),
                   E("HEAL", "END", "failure"),
                   E("HEAL", "PLAN", "success") >> ]

TerraformGraphs == { build_default_terraform_graph, ApplyFirstGraph, HealFirstGraph }

RunTerraform_KeepsInitDone(tf_code, g, wd) ==
    /\ UNCHANGED sideVars
    /\ pc \in {"idle", "returned", "raised", "finished"}
    /\ caller' = "run_terraform"
    /\ workdir' = wd
    /\ files' = [files EXCEPT ![wd] = tf_code]
    /\ listing' = write_listing(listing, wd)
    /\ LET current_hash == _content_hash(tf_code)
           s1 == IF session.last_hash # current_hash
                 THEN [session EXCEPT !.last_hash = current_hash]
                 ELSE session
           s2 == IF s1.tf_workspace # wd
                 THEN [s1 EXCEPT !.tf_workspace = wd]
                 ELSE s1
           attempt_cap == IF g.max_attempts = 0 THEN MAX_HEALING_ATTEMPTS
                          ELSE g.max_attempts
       IN  /\ session' = s2
           /\ Enter(g, [kind |-> "terraform", types |-> StubTypes,
                        parallelism |-> s2.tf_parallelism],
                    [tf |-> tf_code, last_attempt |-> NoResult], attempt_cap)
           /\ initialized' = IF s1.tf_workspace # wd THEN None ELSE initialized
           /\ lastInit' = IF s1.tf_workspace # wd THEN NoInit ELSE lastInit

\* run_terraform lines 484-534, up to and including execute_graph's prologue
RunTerraform(tf_code, g, wd) ==
    /\ UNCHANGED sideVars
    /\ pc \in {"idle", "returned", "raised", "finished"}
    /\ caller' = "run_terraform"
    /\ workdir' = wd
    /\ files' = [files EXCEPT ![wd] = tf_code]
    /\ listing' = write_listing(listing, wd)
    /\ LET current_hash == _content_hash(tf_code)
           s1 == IF session.last_hash # current_hash
                 THEN [session EXCEPT !.last_hash = current_hash]
                 ELSE session
           s2 == IF s1.tf_workspace # wd
                 THEN [s1 EXCEPT !.init_done = FALSE, !.tf_workspace = wd]
                 ELSE s1
           attempt_cap == IF g.max_attempts = 0 THEN MAX_HEALING_ATTEMPTS
                          ELSE g.max_attempts
       IN  /\ session' = s2
           /\ Enter(g, [kind |-> "terraform", types |-> StubTypes,
                        parallelism |-> s2.tf_parallelism],
                    [tf |-> tf_code, last_attempt |-> NoResult], attempt_cap)
           /\ initialized' = IF s1.tf_workspace # wd THEN None ELSE initialized
           /\ lastInit' = IF s1.tf_workspace # wd THEN NoInit ELSE lastInit

\* run_terraform lines 536-551, after execute_graph returned its report
RunTerraformReturn ==
    /\ UNCHANGED sideVars
    /\ pc = "returned"
    /\ caller = "run_terraform"
    /\ pc' = "finished"
    /\ files' = [files EXCEPT ![workdir] = context.tf]
    /\ UNCHANGED << execVars, workdir, session, listing, histVars >>

\* line 150: nodes[current] with current not declared: KeyError leaves
\* execute_graph
VisitUndeclared ==
    /\ UNCHANGED sideVars
    /\ pc = "running"
    /\ current \notin NodeIds(graph)
    /\ pc' = "raised"
    /\ raised' = "KeyError"
    /\ UNCHANGED << graph, callbacks, context, max_attempts, current, attempts,
                    heal_cycles, report, attempt_limit, caller, envVars, histVars >>

VisitEnd_AfterRegistryCheck ==
    /\ UNCHANGED sideVars
    /\ pc = "running"
    /\ current \in NodeIds(graph)
    /\ NodeType(graph, current) = "end"
    /\ pc' = "returned"
    /\ report' = IF "end" \in callbacks.types
                 THEN Report(TRUE, attempts, NoError)
                 ELSE Report(FALSE, attempts,
                             Error("No callback registered for node type", "end"))
    /\ UNCHANGED << graph, callbacks, context, max_attempts, current, attempts,
                    heal_cycles, raised, attempt_limit, caller, envVars, histVars >>

\* lines 153-154
VisitEnd ==
    /\ UNCHANGED sideVars
    /\ pc = "running"
    /\ current \in NodeIds(graph)
    /\ NodeType(graph, current) = "end"
    /\ pc' = "returned"
    /\ report' = Report(TRUE, attempts, NoError)
    /\ UNCHANGED << graph, callbacks, context, max_attempts, current, attempts,
                    heal_cycles, raised, attempt_limit, caller, envVars, histVars >>

VisitUnregistered_NamesNode ==
    /\ UNCHANGED sideVars
    /\ pc = "running"
    /\ current \in NodeIds(graph)
    /\ NodeType(graph, current) # "end"
    /\ NodeType(graph, current) \notin callbacks.types
    /\ pc' = "returned"
    /\ report' = Report(FALSE, attempts,
                         Error("No callback registered for node type", current))
    /\ UNCHANGED << graph, callbacks, context, max_attempts, current, attempts,
                    heal_cycles, raised, attempt_limit, caller, envVars, histVars >>

\* lines 156-162
VisitUnregistered ==
    /\ UNCHANGED sideVars
    /\ pc = "running"
    /\ current \in NodeIds(graph)
    /\ NodeType(graph, current) # "end"
    /\ NodeType(graph, current) \notin callbacks.types
    /\ pc' = "returned"
    /\ report' = Report(FALSE, attempts,
                         Error("No callback registered for node type",
                               NodeType(graph, current)))
    /\ UNCHANGED << graph, callbacks, context, max_attempts, current, attempts,
                    heal_cycles, raised, attempt_limit, caller, envVars, histVars >>

\* lines 164-208: the callback, the log, the context, the budget, the route
VisitNode(tools) ==
    /\ UNCHANGED sideVars
    /\ pc = "running"
    /\ current \in NodeIds(graph)
    /\ Len(attempts) < MaxVisits
    /\ LET type == NodeType(graph, current) IN
       /\ type # "end"
       /\ type \in callbacks.types
       /\ cbCalls' = cbCalls + 1
       /\ healVisits' = IF type = "heal" THEN healVisits + 1 ELSE healVisits
       /\ visited' = visited \cup { << current, heal_cycles >> }
       /\ \E o \in CallbackOutcomes(callbacks, type, context, session, files, workdir, tools) :
            /\ session' = o.sess
            /\ files' = o.fs
            /\ listing' = IF WritesArtifact(callbacks, type, o)
                           THEN write_listing(listing, workdir)
                           ELSE listing
            /\ ext' = o.ext
            /\ initialized' = IF /\ callbacks.kind = "terraform" /\ type = "init"
                                  /\ ~o.raised /\ o.res.success /\ o.ext # << >>
                               THEN context.tf ELSE initialized
            /\ lastInit' = IF callbacks.kind = "terraform" /\ type = "init"
                           THEN [ visited |-> TRUE, workdir |-> workdir,
                                  tf |-> context.tf,
                                  success |-> ~o.raised /\ o.res.success ]
                           ELSE lastInit
            /\ IF o.raised
               THEN /\ pc' = "raised"
                    /\ raised' = "CallbackError"
                    /\ UNCHANGED << context, current, attempts, heal_cycles, report >>
               ELSE LET res == Normalize(o.res)
                        log == Append(attempts, res)
                        cycles == NextHealCycles(type, heal_cycles)
                        to == Route(graph.edges, current, res)
                    IN  /\ attempts' = log
                        /\ context' = MergeContext(context, res)
                        /\ heal_cycles' = cycles
                        /\ raised' = None
                        /\ IF type = "heal" /\ BudgetReached(cycles, max_attempts)
                           THEN /\ pc' = "returned"
                                /\ report' = Report(FALSE, log,
                                                 Error("Max healing attempts reached", Absent))
                                /\ current' = current
                           ELSE IF to = NoRoute
                           THEN /\ pc' = "returned"
                                /\ report' = Report(FALSE, log,
                                                 Error("No edge route matched from node", current))
                                /\ current' = current
                           ELSE /\ pc' = "running"
                                /\ report' = NoReport
                                /\ current' = to
    /\ UNCHANGED << graph, callbacks, max_attempts, attempt_limit, caller, workdir >>

\* Direct calls of execute_graph, with stub callables, on every graph.
Next ==
    \/ \E g \in Graphs, limit \in LimitValues : ExecuteGraph(g, limit)
    \/ VisitUndeclared
    \/ VisitEnd
    \/ VisitUnregistered
    \/ VisitNode(NoTools)

Spec == Init /\ [][Next]_vars

\* One iteration of the while loop of lines 149-208.  The loop has no
\* blocking call of its own: once execute_graph is running, the next
\* iteration is taken.
LoopIteration ==
    \/ VisitUndeclared
    \/ VisitEnd
    \/ VisitUnregistered
    \/ VisitNode(NoTools)

SpecLive == Init /\ [][Next]_vars /\ WF_vars(LoopIteration)

\* A session of run_terraform calls with the canonical callbacks; the
\* workspace path may resolve differently from one call to the next.  The
\* graphs declare every node they use and use registered types only.
NextTerraform ==
    \/ \E tf_code \in Artifacts, g \in TerraformGraphs, wd \in Workdirs :
          RunTerraform(tf_code, g, wd)
    \/ RunTerraformReturn
    \/ VisitEnd
    \/ VisitNode(PlainTools)

SpecTerraform == Init /\ [][NextTerraform]_vars

\* run_terraform calls on the default graph in an environment whose repair
\* oracle can fail.
NextOracle ==
    \/ \E tf_code \in Artifacts, g \in { build_default_terraform_graph, HealEdgesGraph } :
          RunTerraform(tf_code, g, "/srv/a/generated/workspace")
    \/ RunTerraformReturn
    \/ VisitEnd
    \/ VisitNode(OracleTools)

SpecOracle == Init /\ [][NextOracle]_vars

\* run_terraform calls in an environment whose provider throttles.
NextThrottle ==
    \/ \E g \in { build_default_terraform_graph, ApplyFirstGraph } :
          RunTerraform("tfA", g, "/srv/a/generated/workspace")
    \/ RunTerraformReturn
    \/ VisitEnd
    \/ VisitNode(ThrottleTools)

SpecThrottle == Init /\ [][NextThrottle]_vars

\* a file appears in the workspace between two runs: left by the tool, by
\* an earlier run or by somebody else
FileAppears(wd, name) ==
    /\ UNCHANGED sideVars
    /\ pc \in {"idle", "finished", "raised"}
    /\ name \notin listing[wd]
    /\ listing' = [listing EXCEPT ![wd] = @ \cup {name}]
    /\ UNCHANGED << pc, execVars, workdir, session, files, histVars >>

\* the tools of the runs on a workspace that holds other files
WorkspaceTools ==
    [ init |-> { Exit(0, "") },
      plan |-> { Exit(2, ""), Exit(1, "Error: plan") },
      apply |-> { Exit(0, "") },
      oracle |-> { "tfB" } ]

\* run_terraform calls on a workspace in which other files turn up.
NextWorkspace ==
    \/ RunTerraform("tfA", build_default_terraform_graph, "/srv/a/generated/workspace")
    \/ \E name \in WorkspaceNames : FileAppears("/srv/a/generated/workspace", name)
    \/ RunTerraformReturn
    \/ VisitEnd
    \/ VisitNode(WorkspaceTools)

SpecWorkspace == Init /\ [][NextWorkspace]_vars

(***************************************************************************)
(* Two sessions running run_terraform at the same time.  The server runs   *)
(* each session's script in a thread of its own; a run is a sequence of    *)
(* writes of MAIN_TF_PATH and blocking tool invocations, and the steps of  *)
(* the two runs interleave.  Nothing in run_terraform takes a lock.        *)
(***************************************************************************)
\* run_stage, terraform_exec.py:204-211: the tool runs with cwd=workdir and
\* reads the main.tf it finds there
ToolReads_OwnCopy(file, own) == own
ToolReads(file, own) == file

\* run_terraform lines 488-490: the pre-write of main.tf
RunBegin(s, tf_code) ==
    /\ runs[s].pc \in {"idle", "done"}
    /\ main_tf' = tf_code
    /\ lastWriter' = s
    /\ runs' = [runs EXCEPT ![s] = [pc |-> "callback", tf |-> tf_code,
                                    stage |-> 1, seen |-> << >>]]
    /\ UNCHANGED << pc, execVars, envVars, histVars, pipeVars >>

\* write_tf at the head of init_cb, plan_cb and apply_cb (257, 315, 347)
CallbackWrite(s) ==
    /\ runs[s].pc = "callback"
    /\ main_tf' = runs[s].tf
    /\ lastWriter' = s
    /\ runs' = [runs EXCEPT ![s].pc = "subprocess"]
    /\ UNCHANGED << pc, execVars, envVars, histVars, pipeVars >>

\* run_stage's subprocess.run (287, 333, 399); a failed stage ends the part
\* of the run that is modelled here
CallbackInvoke(s, ok) ==
    /\ runs[s].pc = "subprocess"
    /\ LET c == ExtCall(RunStages[runs[s].stage], ToolReads(main_tf, runs[s].tf),
                        DEFAULT_PARALLELISM)
       IN  runs' = [runs EXCEPT
                      ![s].seen = Append(@, c),
                      ![s].pc = IF ok /\ runs[s].stage < Len(RunStages)
                                THEN "callback" ELSE "done",
                      ![s].stage = IF ok /\ runs[s].stage < Len(RunStages)
                                   THEN @ + 1 ELSE @]
    /\ UNCHANGED << main_tf, lastWriter >>
    /\ UNCHANGED << pc, execVars, envVars, histVars, pipeVars >>

NextRace ==
    \/ \E s \in Sessions, tf_code \in Artifacts : RunBegin(s, tf_code)
    \/ \E s \in Sessions : CallbackWrite(s)
    \/ \E s \in Sessions, ok \in BOOLEAN : CallbackInvoke(s, ok)

SpecRace == Init /\ [][NextRace]_vars

(***************************************************************************)
(* run_pipeline, the linear pipeline of engine.py.                         *)
(***************************************************************************)
\* How the body of a stage can end (engine.py:105-142): "ok" it returns,
\* "exception" it raises an Exception, "control" it raises an exception that
\* is no Exception.  check_identity and list_buckets raise what boto3 raises;
\* call_claude and bedrock_client catch everything (bedrock.py:13-23, 42-57);
\* langgraph_provision raises at 123 or out of run_terraform, and
\* run_terraform reaches run_stage's st.write (terraform_exec.py:223), where
\* the script runner stops or reruns a script with an exception that derives
\* from BaseException.
StageOutcomes(id) ==
    CASE id = "check_identity" -> {"ok", "exception"}
      [] id = "list_s3_buckets" -> {"ok", "exception"}
      [] id = "bedrock_ping" -> {"ok"}
      [] id = "langgraph_provision" -> {"ok", "exception", "control"}

\* engine.py:91-94
Skipped(m, status) ==
    \/ m = "failed_only" /\ status # "FAILED"
    \/ m = "from_first_pending" /\ status = "SUCCESS"

\* engine.py:48-88, up to the loop
RunPipeline(m) ==
    /\ ppc \in {"idle", "returned", "escaped"}
    /\ mode' = m
    /\ idx' = 1
    /\ ppc' = "loop"
    /\ executed' = << >>
    /\ entry' = pipeline_stages
    /\ UNCHANGED pipeline_stages
    /\ UNCHANGED << pc, execVars, envVars, histVars, raceVars >>

\* engine.py:88-94, an iteration that skips its stage
SkipStage ==
    /\ ppc = "loop"
    /\ idx <= Len(pipeline_stages)
    /\ Skipped(mode, pipeline_stages[idx])
    /\ idx' = idx + 1
    /\ UNCHANGED << pipeline_stages, mode, ppc, executed, entry >>
    /\ UNCHANGED << pc, execVars, envVars, histVars, raceVars >>

\* engine.py:96-180, an iteration that executes its stage: RUNNING at 97,
\* then SUCCESS at 147, or FAILED at 156 with break and the return of 182,
\* or the exception leaves run_pipeline past "except Exception" (150)
ExecuteStage(outcome) ==
    /\ ppc = "loop"
    /\ idx <= Len(pipeline_stages)
    /\ ~Skipped(mode, pipeline_stages[idx])
    /\ outcome \in StageOutcomes(DEFAULT_STAGES[idx])
    /\ executed' = Append(executed, idx)
    /\ pipeline_stages' =
          [pipeline_stages EXCEPT ![idx] = CASE outcome = "ok" -> "SUCCESS"
                                             [] outcome = "exception" -> "FAILED"
                                             [] outcome = "control" -> "RUNNING"]
    /\ idx' = IF outcome = "ok" THEN idx + 1 ELSE idx
    /\ ppc' = CASE outcome = "ok" -> "loop"
               [] outcome = "exception" -> "returned"
               [] outcome = "control" -> "escaped"
    /\ UNCHANGED << mode, entry >>
    /\ UNCHANGED << pc, execVars, envVars, histVars, raceVars >>

\* engine.py:182, the return after the last iteration
PipelineReturn ==
    /\ ppc = "loop"
    /\ idx > Len(pipeline_stages)
    /\ ppc' = "returned"
    /\ UNCHANGED << pipeline_stages, mode, idx, executed, entry >>
    /\ UNCHANGED << pc, execVars, envVars, histVars, raceVars >>

\* state.py:11-12, between two calls of run_pipeline
reset_pipeline_state ==
    /\ ppc \in {"returned", "escaped"}
    /\ pipeline_stages' = init_pipeline_state
    /\ ppc' = "idle"
    /\ UNCHANGED << mode, idx, executed, entry >>
    /\ UNCHANGED << pc, execVars, envVars, histVars, raceVars >>

NextPipeline ==
    \/ \E m \in Modes : RunPipeline(m)
    \/ SkipStage
    \/ \E outcome \in {"ok", "exception", "control"} : ExecuteStage(outcome)
    \/ PipelineReturn
    \/ reset_pipeline_state

SpecPipeline == Init /\ [][NextPipeline]_vars

(***************************************************************************)
(* Claims about execute_graph (checked under Spec).                        *)
(***************************************************************************)
Last(log) == log[Len(log)]
Terminated == pc \in {"returned", "raised"}
Range(seq) == { seq[i] : i \in 1 .. Len(seq) }

\* C1: the number of visits to heal-typed nodes in one run never exceeds the
\* effective attempt limit: attempt_limit when the caller gives one, else
\* metadata.max_attempts when the graph declares one, else 3.
C1_HealVisitsWithinLimit ==
    /\ attempt_limit # 0 => healVisits <= attempt_limit
    /\ attempt_limit = 0 /\ graph.max_attempts # 0 => healVisits <= graph.max_attempts
    /\ attempt_limit = 0 /\ graph.max_attempts = 0 => healVisits <= 3

\* a run that used the whole default budget of 3
C1_Witness ==
    /\ pc = "returned"
    /\ healVisits = 3
    /\ attempt_limit = 0
    /\ graph.max_attempts = 0

\* the non-end, declared nodes of a graph: the nodes a callback runs for
CallbackNodes(g) == { id \in NodeIds(g) : NodeType(g, id) # "end" }
\* the declared nodes a heal-free cycle could pass through
HealFreeNodes(g) == { id \in CallbackNodes(g) : NodeType(g, id) # "heal" }
HealFreeEdges(g) ==
    { << e.from, e.to >> : e \in Range(g.edges) } \cap (HealFreeNodes(g) \X HealFreeNodes(g))
RECURSIVE Closure(_, _)
Closure(R, k) ==
    IF k = 0 THEN R
    ELSE Closure(R \cup { << p[1][1], p[2][2] >> : p \in { q \in R \X R : q[1][2] = q[2][1] } },
                 k - 1)
\* every cycle of g passes through a heal-typed node
AllCyclesThroughHeal(g) ==
    \A n \in HealFreeNodes(g) : << n, n >> \notin Closure(HealFreeEdges(g), Len(g.nodes))

EndedAtEnd == pc = "returned" /\ report.success
EndedAtBudget == pc = "returned" /\ report.error.msg = "Max healing attempts reached"
EndedUnroutable == pc = "returned" /\ report.error.msg = "No edge route matched from node"
EndedDefinition ==
    pc = "returned" /\ report.error.msg \in { "Invalid graph start node",
                                          "No callback registered for node type" }
EndedByException == pc = "raised"
Count(bools) == Cardinality({ i \in 1 .. Len(bools) : bools[i] })

\* The executor's only memory between iterations is (current, heal_cycles),
\* and the callbacks may answer anything: all runs on a graph terminate
\* exactly when no run comes back to a pair it has already visited.
NoRecurrence == pc = "running" => << current, heal_cycles >> \notin visited

\* C2 (as stated): every run terminates, for every graph and every sequence
\* of callback outcomes, and a run that returns ends in exactly one of: an
\* end node, the healing budget, a routing error, a definition error.
C2_EveryRunTerminates ==
    /\ NoRecurrence
    /\ pc = "returned" =>
         Count(<< EndedAtEnd, EndedAtBudget, EndedUnroutable, EndedDefinition >>) = 1

\* C2 (amended): on a graph in which every cycle passes through a heal-typed
\* node every run terminates, after at most (callback nodes x limit) visits,
\* in exactly one of: an end node, the healing budget, a routing error, a
\* definition error, or an exception that leaves execute_graph.
C2_TerminatesWhenCyclesHeal ==
    AllCyclesThroughHeal(graph) =>
        /\ NoRecurrence
        /\ Len(attempts) <= Cardinality(CallbackNodes(graph)) * max_attempts
        /\ Len(attempts) < MaxVisits
        /\ Terminated =>
             Count(<< EndedAtEnd, EndedAtBudget, EndedUnroutable, EndedDefinition,
                      EndedByException >>) = 1

\* the default graph's longest run: INIT, then three times PLAN, APPLY, HEAL
C2_Witness ==
    /\ EndedAtBudget
    /\ AllCyclesThroughHeal(graph)
    /\ Len(graph.nodes) = 5
    /\ Len(attempts) = 10

\* C3: when a run reaches an end-typed node it returns success=true without
\* an error, with the attempt log accumulated so far, and invokes no callback
\* for the end node.
C3_EndNodeReturnsSuccess ==
    [][ (pc = "running" /\ current \in NodeIds(graph) /\ NodeType(graph, current) = "end")
          => /\ pc' = "returned"
             /\ report'.success
             /\ report'.error = NoError
             /\ report'.attempts = attempts
             /\ attempts' = attempts
             /\ cbCalls' = cbCalls ]_vars

\* a run that returned at an end node (declared as type "END") with two
\* results in its log
C3_Witness ==
    /\ pc = "returned"
    /\ current \in NodeIds(graph)
    /\ NodeOf(graph, current).type = "END"
    /\ report.success
    /\ Len(report.attempts) = 2

\* C4: execute_graph never raises past its boundary: when a stage callback
\* raises (the external process exceeds its timeout) the run still returns a
\* report with success=false and the failure in its error field.
C4_FailuresAreReported ==
    (pc \in {"returned", "raised", "finished"} /\ cbCalls > Len(attempts))
        => /\ pc # "raised"
           /\ ~report.success
           /\ report.error # NoError

\* C5: when routing follows an edge to an undeclared node the run returns a
\* report with success=false and an error.
C5_DanglingEdgeIsDefinitionError ==
    (Terminated /\ current # None /\ current \notin NodeIds(graph))
        => /\ pc = "returned"
           /\ ~report.success
           /\ report.error # NoError

\* the claim's reading of an edge condition
C6_Matches(e, ok) ==
    LET cond == Lower(IF e.condition = Absent THEN "always" ELSE e.condition)
    IN  CASE cond = "always" -> TRUE
          [] cond = "success" -> ok
          [] cond = "failure" -> ~ok
          [] OTHER -> FALSE

\* C6: a visit that routes advances to the target of the first declared edge
\* that leaves the current node and matches the last result, even when a
\* later edge matches too.
C6_FirstDeclaredMatchWins ==
    [][ (pc = "running" /\ pc' = "running" /\ Len(attempts') = Len(attempts) + 1)
          => \E i \in 1 .. Len(graph.edges) :
                /\ graph.edges[i].from = current
                /\ C6_Matches(graph.edges[i], Last(attempts').success)
                /\ graph.edges[i].to = current'
                /\ \A j \in 1 .. (i - 1) :
                      ~(/\ graph.edges[j].from = current
                        /\ C6_Matches(graph.edges[j], Last(attempts').success)) ]_vars

\* A succeeded: the success edge to B was taken although the always edge to
\* C, declared after it, matches too
C6_Witness ==
    /\ pc = "running"
    /\ graph.nodes = AmbiguousGraph.nodes
    /\ Len(attempts) = 1
    /\ attempts[1].success
    /\ current = "B"

\* C7: when the heal-cycle counter reaches the effective limit the run ends
\* with success=false and a healing-budget error; the effective limit is
\* attempt_limit when given, else metadata.max_attempts, else 3.
C7_BudgetEndsRun ==
    LET limit == IF attempt_limit # 0 THEN attempt_limit
                 ELSE IF graph.max_attempts # 0 THEN graph.max_attempts
                 ELSE 3
    IN  /\ pc = "running" => heal_cycles < limit
        /\ heal_cycles <= limit
        /\ (pc = "returned" /\ heal_cycles = limit)
             => ~report.success /\ report.error.msg = "Max healing attempts reached"
        /\ EndedAtBudget => heal_cycles = limit /\ ~report.success

\* the caller's limit 1 ended the run although the graph declares 2
C7_Witness ==
    /\ EndedAtBudget
    /\ attempt_limit = 1
    /\ graph.max_attempts = 2
    /\ heal_cycles = 1

(***************************************************************************)
(* Claims about the canonical callbacks (checked under SpecTerraform).     *)
(***************************************************************************)
InitWasSkipped(res) == res.stage = "init" /\ res.stdout = "Init skipped (cached)."

\* C8: Init is skipped as cached only when terraform init succeeded before
\* in this workspace on the very artifact of the visit: an Init visit with
\* an artifact that differs from the last successfully initialised one
\* invokes the external init.
C8_SkipOnlyForInitializedArtifact ==
    (caller = "run_terraform" /\ attempts # << >> /\ InitWasSkipped(Last(attempts)))
        => initialized = Last(attempts).tf

\* C9: when the previous Init visit on this workspace succeeded (the
\* workspace still being the recorded one) and Init is visited again with
\* the same artifact, the visit returns a synthetic success of stage init
\* and invokes no external process.
C9_RepeatedInitIsSkipped ==
    [][ (/\ caller = "run_terraform"
         /\ pc = "running"
         /\ NodeType(graph, current) = "init"
         /\ lastInit.visited
         /\ lastInit.success
         /\ lastInit.workdir = workdir
         /\ lastInit.tf = context.tf)
          => /\ ext' = << >>
             /\ pc' # "raised"
             /\ Len(attempts') = Len(attempts) + 1
             /\ Last(attempts').stage = "init"
             /\ Last(attempts').success
             /\ Last(attempts').tf = context.tf
             /\ session' = session ]_vars

\* the second Init visit of a run of ApplyFirstGraph, skipped after the first
\* one ran terraform init on the same artifact
C9_Witness ==
    /\ caller = "run_terraform"
    /\ Len(attempts) = 4
    /\ attempts[1].stage = "init"
    /\ attempts[1].success
    /\ attempts[1].returncode = {0}
    /\ InitWasSkipped(attempts[4])
    /\ attempts[4].tf = attempts[1].tf
    /\ ext = << >>

OracleWasCalled(res) ==
    res.stage = "heal" /\ res.stdout # "No healing needed (last stage succeeded)."
NoOpHeal(res) ==
    res.stage = "heal" /\ res.stdout = "Healing produced identical code; skipping."

\* C10: once the oracle has returned the artifact it was given, the run
\* does not come back to Heal and call the oracle again with the same
\* artifact and the same failure.
C10_NoOracleCallAfterNoOpHeal ==
    \A i \in 2 .. Len(attempts), j \in 2 .. Len(attempts) :
        (/\ i < j
         /\ NoOpHeal(attempts[i])
         /\ OracleWasCalled(attempts[j])
         /\ attempts[j - 1].tf = attempts[i].tf
         /\ attempts[j - 1].stage = attempts[i - 1].stage
         /\ attempts[j - 1].stderr = attempts[i - 1].stderr) => FALSE

\* number of results of a stage in a log, and of its failures
StageCount(log, stage) == Cardinality({ i \in 1 .. Len(log) : log[i].stage = stage })
FailureCount(log, stage) ==
    Cardinality({ i \in 1 .. Len(log) : log[i].stage = stage /\ ~log[i].success })

\* C11: on the default graph with its budget of 3, when Plan has failed at
\* least twice and the third Heal gets from the oracle the artifact it sent,
\* the run is over with success=false and the no-op heal result is in the
\* report's attempt log.
C11_ThirdNoOpHealEndsRun ==
    (/\ caller = "run_terraform"
     /\ graph = build_default_terraform_graph
     /\ attempts # << >>
     /\ NoOpHeal(Last(attempts))
     /\ StageCount(attempts, "heal") = 3
     /\ FailureCount(attempts, "plan") >= 2)
        => /\ pc \in {"returned", "finished"}
           /\ ~report.success
           /\ report.attempts = attempts
           /\ NoOpHeal(Last(report.attempts))

\* Plan failed exactly twice and was healed with a changed artifact each
\* time, Apply failed next, and the third Heal was a no-op
C11_Witness ==
    /\ caller = "run_terraform"
    /\ graph = build_default_terraform_graph
    /\ pc = "returned"
    /\ Len(attempts) = 8
    /\ FailureCount(attempts, "plan") = 2
    /\ StageCount(attempts, "heal") = 3
    /\ attempts[3].stdout = "Terraform code healed by Claude"
    /\ attempts[5].stdout = "Terraform code healed by Claude"
    /\ attempts[7].stage = "apply"
    /\ NoOpHeal(attempts[8])
    /\ ~report.success

(***************************************************************************)
(* Claims about a failing repair oracle (checked under SpecOracle).        *)
(***************************************************************************)
\* the last callback called the oracle and the oracle call failed
OracleFailed == ext # << >> /\ Last(ext).cmd = "oracle" /\ Last(ext).answer = ErrText

\* C12: when the oracle call of a Heal fails, the heal result in the run's
\* report is a failure, and the error text is not adopted: the context
\* artifact and the workspace's main.tf are still the artifact Heal was
\* given.
C12_OracleFailureIsNotAdopted ==
    (caller = "run_terraform" /\ OracleFailed)
        => /\ ~Last(attempts).success
           /\ Last(attempts).tf # ErrText
           /\ context.tf = Last(ext).tf
           /\ files[workdir] = Last(ext).tf

(***************************************************************************)
(* Claims about failed stages and graph definitions.                       *)
(***************************************************************************)
FailedInit(res) == res.stage \in {"init", "init (retry)"} /\ ~res.success

\* C13: with the default graph, once Init has returned success=false the
\* run is over: no Plan and no Apply callback is invoked after it in that
\* run.  (Checked under SpecTerraform.)
C13_FailedInitIsFatal ==
    (/\ caller = "run_terraform"
     /\ graph = build_default_terraform_graph
     /\ attempts # << >>
     /\ FailedInit(attempts[1]))
        => /\ pc # "running"
           /\ cbCalls = 1
           /\ Len(attempts) = 1

\* C14: when the current node's type has no registered callback the run
\* returns success=false with an error that names that type, with the
\* attempts logged so far, and without invoking a callback.  (Checked under
\* Spec.)
C14_UnregisteredTypeIsReported ==
    [][ (/\ pc = "running"
         /\ current \in NodeIds(graph)
         /\ Lower(NodeOf(graph, current).type) # "end"
         /\ Lower(NodeOf(graph, current).type) \notin callbacks.types)
          => /\ pc' = "returned"
             /\ ~report'.success
             /\ report'.error.msg = "No callback registered for node type"
             /\ report'.error.arg = Lower(NodeOf(graph, current).type)
             /\ report'.attempts = attempts
             /\ attempts' = attempts
             /\ cbCalls' = cbCalls ]_vars

\* the run of CustomTypeGraph that reached X, of type "custom", after two
\* logged attempts
C14_Witness ==
    /\ pc = "returned"
    /\ ~report.success
    /\ report.error.arg = "custom"
    /\ Len(report.attempts) = 2
    /\ cbCalls = 2

\* the context execute_graph is called with in direct calls
FreshContext == [tf |-> "tfA", last_attempt |-> NoResult]
\* the start node as the claim defines it
C15_Start(g) ==
    IF g.start # Absent THEN g.start
    ELSE IF g.nodes # << >> THEN g.nodes[1].id
    ELSE None

\* C15: a run starts at metadata.start when given, else at the first
\* declared node; when there is no such node or it is not declared the run
\* returns success=false with a definition error, an empty attempt log, no
\* callback invoked and the context as it was passed.  (Checked under Spec.)
C15_StartNodeResolution ==
    (pc # "idle" /\ caller = "direct") =>
        IF C15_Start(graph) = None \/ C15_Start(graph) \notin NodeIds(graph)
        THEN /\ pc = "returned"
             /\ ~report.success
             /\ report.error.msg = "Invalid graph start node"
             /\ report.attempts = << >>
             /\ attempts = << >>
             /\ cbCalls = 0
             /\ context = FreshContext
        ELSE /\ (pc = "running" /\ cbCalls = 0) => current = C15_Start(graph)
             /\ report.error.msg # "Invalid graph start node"

\* a graph whose metadata.start names an undeclared node, rejected
C15_Witness ==
    /\ pc = "returned"
    /\ graph.start = "NOPE"
    /\ graph.nodes # << >>
    /\ report.error.msg = "Invalid graph start node"
    /\ cbCalls = 0

(***************************************************************************)
(* Claims about the Plan, Apply and Heal callbacks (checked under          *)
(* SpecTerraform).                                                         *)
(***************************************************************************)
\* the executor is about to visit a node of this type in a run_terraform run
AboutToVisit(type) ==
    /\ caller = "run_terraform"
    /\ pc = "running"
    /\ current \in NodeIds(graph)
    /\ NodeType(graph, current) = type

\* C16: when the attempt just before an Apply visit is a Plan that reported
\* no changes (exit detail 0), Apply returns a synthetic success and invokes
\* no external process; when that Plan reported changes (exit detail 2),
\* Apply invokes the external apply, and nothing else.
C16_ApplySkippedAfterNoChangePlan ==
    [][ (AboutToVisit("apply") /\ context.last_attempt.stage = "plan")
          => /\ context.last_attempt.detailed_exit_code = {0}
                  => /\ ext' = << >>
                     /\ pc' # "raised"
                     /\ Len(attempts') = Len(attempts) + 1
                     /\ Last(attempts').stage = "apply"
                     /\ Last(attempts').success
                     /\ Last(attempts').returncode = {}
             /\ context.last_attempt.detailed_exit_code = {2}
                  => /\ Len(ext') = 1
                     /\ ext'[1].cmd = "apply"
                     /\ ext'[1].tf = context.tf ]_vars

\* one run in which Apply ran the external apply after a Plan with changes
\* (and failed), and was skipped after the healed Plan found no changes
C16_Witness ==
    /\ caller = "run_terraform"
    /\ Len(attempts) = 6
    /\ attempts[2].stage = "plan"
    /\ attempts[2].detailed_exit_code = {2}
    /\ attempts[3].stage = "apply"
    /\ attempts[3].returncode = {1}
    /\ attempts[5].stage = "plan"
    /\ attempts[5].detailed_exit_code = {0}
    /\ attempts[6].stage = "apply"
    /\ attempts[6].success
    /\ attempts[6].returncode = {}
    /\ ext = << >>

\* C17: a Plan result has success=true exactly when the exit code is 0 or
\* 2, and its detailed_exit_code is the exit code.
C17_PlanTriState ==
    caller = "run_terraform" =>
        \A i \in 1 .. Len(attempts) :
            attempts[i].stage = "plan" =>
                /\ Cardinality(attempts[i].returncode) = 1
                /\ attempts[i].success <=> (attempts[i].returncode \subseteq {0, 2})
                /\ attempts[i].detailed_exit_code = attempts[i].returncode

\* one run whose three Plan visits exited with 1, with 2 and with 0
C17_Witness ==
    /\ caller = "run_terraform"
    /\ Len(attempts) = 7
    /\ attempts[2].stage = "plan" /\ attempts[2].returncode = {1} /\ ~attempts[2].success
    /\ attempts[4].stage = "plan" /\ attempts[4].returncode = {2} /\ attempts[4].success
    /\ attempts[7].stage = "plan" /\ attempts[7].returncode = {0} /\ attempts[7].success

\* C18: a Heal visit whose previous attempt succeeded, or that has no
\* previous attempt, returns success=true with the artifact it was given,
\* calls no oracle and leaves the workspace files as they are.
C18_HealIsNoOpAfterSuccess ==
    [][ (/\ AboutToVisit("heal")
         /\ (context.last_attempt = NoResult \/ context.last_attempt.success))
          => /\ ext' = << >>
             /\ files' = files
             /\ Len(attempts') = Len(attempts) + 1
             /\ Last(attempts').stage = "heal"
             /\ Last(attempts').success
             /\ Last(attempts').tf = context.tf
             /\ context'.tf = context.tf ]_vars

\* HealFirstGraph: Heal without a previous attempt, a Plan that succeeded,
\* and Heal again, without any oracle call
C18_Witness ==
    /\ caller = "run_terraform"
    /\ Len(attempts) = 3
    /\ attempts[1].stdout = "No healing needed (last stage succeeded)."
    /\ attempts[2].stage = "plan"
    /\ attempts[2].success
    /\ attempts[3].stdout = "No healing needed (last stage succeeded)."
    /\ ext = << >>

Healed(res) == res.stage = "heal" /\ res.stdout = "Terraform code healed by Claude"

\* C19: when the oracle's cleaned answer differs from the artifact Heal was
\* given, Heal writes the answer to the workspace's main.tf and returns it,
\* the context artifact becomes the answer, and every external process of
\* the next visit runs on the answer.
C19_HealedArtifactIsUsedNext ==
    [][ /\ (AboutToVisit("heal") /\ ext' # << >> /\ Last(ext').cmd = "oracle"
                /\ Last(ext').answer # context.tf)
             => /\ files'[workdir] = Last(ext').answer
                /\ Last(attempts').tf = Last(ext').answer
                /\ Healed(Last(attempts'))
                /\ context'.tf = Last(ext').answer
        /\ (/\ caller = "run_terraform" /\ pc = "running" /\ attempts # << >>
            /\ Healed(Last(attempts)) /\ cbCalls' = cbCalls + 1)
             => /\ files'[workdir] = Last(attempts).tf
                /\ \A k \in 1 .. Len(ext') : ext'[k].tf = Last(attempts).tf ]_vars

\* Plan failed on tfA, Heal changed the artifact to tfB, and the retried Plan
\* ran on tfB
C19_Witness ==
    /\ caller = "run_terraform"
    /\ Len(attempts) = 4
    /\ attempts[2].stage = "plan" /\ attempts[2].tf = "tfA"
    /\ Healed(attempts[3]) /\ attempts[3].tf = "tfB"
    /\ attempts[4].stage = "plan" /\ attempts[4].tf = "tfB"
    /\ ext = << ExtCall("plan", "tfB", DEFAULT_PARALLELISM) >>
    /\ files[workdir] = "tfB"

(***************************************************************************)
(* Claims about the context (checked under Spec).                          *)
(***************************************************************************)
\* the artifact of the most recent result of log[1..i] that carries a
\* present, non-null artifact; initial if there is none
RECURSIVE LastArtifact(_, _, _)
LastArtifact(log, i, initial) ==
    IF i = 0 THEN initial
    ELSE IF log[i].tf # Absent /\ log[i].tf # None THEN log[i].tf
    ELSE LastArtifact(log, i - 1, initial)

\* C20: after every node visit, context.last_attempt is the result appended
\* last and context.tf is the artifact of the most recent logged result that
\* carries a present, non-null artifact, or the initial artifact when no
\* logged result carries one.
C20_ContextFollowsLog ==
    (caller = "direct" /\ pc # "idle") =>
        /\ context.last_attempt = (IF attempts = << >> THEN NoResult ELSE Last(attempts))
        /\ context.tf = LastArtifact(attempts, Len(attempts), FreshContext.tf)

\* the default graph: Heal returned tfB, the retried Plan returned a null
\* artifact, and the context still holds tfB
C20_Witness ==
    /\ caller = "direct"
    /\ Len(attempts) = 4
    /\ attempts[3].stage = "heal"
    /\ attempts[3].tf = "tfB"
    /\ attempts[4].stage = "plan"
    /\ attempts[4].tf = None
    /\ context.tf = "tfB"
    /\ context.last_attempt = attempts[4]

(***************************************************************************)
(* Claims about the parallelism hint (checked under SpecThrottle).         *)
(***************************************************************************)
\* a stderr text with a rate-limit substring
Throttled(stderr) ==
    \E pat \in {"Throttling", "Rate exceeded", "RequestLimitExceeded", "TooManyRequests"} :
        pat \in Fragments(stderr)
\* this step is a node visit that logged a result
VisitLogged == pc = "running" /\ Len(attempts') = Len(attempts) + 1

\* C21: the hint never increases; it changes only in a Plan or Apply visit,
\* only from above the floor and then to exactly the floor 10; a Plan or
\* Apply result whose stderr has a rate-limit substring, logged while the
\* hint exceeds the floor, sets it to the floor; a Plan result without such
\* a substring, and any visit at the floor, leaves it unchanged.
C21_HintOnlyDropsToFloor ==
    [][ /\ session'.tf_parallelism <= session.tf_parallelism
        /\ session'.tf_parallelism # session.tf_parallelism
             => /\ session.tf_parallelism > 10
                /\ session'.tf_parallelism = 10
                /\ pc = "running"
                /\ NodeType(graph, current) \in {"plan", "apply"}
        /\ (/\ VisitLogged
            /\ Last(attempts').stage \in {"plan", "apply"}
            /\ Throttled(Last(attempts').stderr)
            /\ session.tf_parallelism > 10)
             => session'.tf_parallelism = 10
        /\ (/\ VisitLogged
            /\ Last(attempts').stage = "plan"
            /\ ~Throttled(Last(attempts').stderr))
             => session'.tf_parallelism = session.tf_parallelism
        /\ session.tf_parallelism <= 10
             => session'.tf_parallelism = session.tf_parallelism ]_vars

\* a run in which a throttled Plan dropped the hint to the floor, and a
\* later throttled Apply left it there
C21_Witness ==
    /\ caller = "run_terraform"
    /\ Len(attempts) >= 3
    /\ attempts[2].stage = "plan"
    /\ Throttled(attempts[2].stderr)
    /\ Last(attempts).stage = "apply"
    /\ Last(attempts).stderr = "TooManyRequests"
    /\ session.tf_parallelism = 10

(***************************************************************************)
(* Claims about Init (checked under SpecTerraform).                        *)
(***************************************************************************)
\* C22: a run_terraform call against a workspace other than the recorded
\* one clears the init flag and records the new workspace before any stage
\* runs, and the first Init visit after that invokes the external init,
\* although the recorded hash equals the artifact's hash.
C22_WorkspaceChangeResetsInit ==
    [][ /\ (pc # "running" /\ caller' = "run_terraform" /\ session.tf_workspace # workdir')
             => /\ ~session'.init_done
                /\ session'.tf_workspace = workdir'
                /\ cbCalls' = 0
        /\ (AboutToVisit("init") /\ ~lastInit.visited)
             => /\ session.last_hash = _content_hash(context.tf) => ext' # << >>
                /\ ext' # << >>
                /\ ext'[1] = ExtCall("init", context.tf, 0) ]_vars

\* tfA was run in workspace a; the next run, of tfA again in workspace b,
\* ran terraform init
C22_Witness ==
    /\ caller = "run_terraform"
    /\ workdir = "/srv/b/generated/workspace"
    /\ files["/srv/a/generated/workspace"] = "tfA"
    /\ Len(attempts) = 1
    /\ attempts[1].stage = "init"
    /\ attempts[1].tf = "tfA"
    /\ attempts[1].returncode = {0}
    /\ ext = << ExtCall("init", "tfA", 0) >>
    /\ session.init_done

\* a stderr text with one of the dependency-changed signatures
DependencyChanged(stderr) ==
    \E sig \in {"Provider dependency changes detected", "lock file is read-only"} :
        sig \in Fragments(stderr)

\* C23: one Init visit invokes the external init at most twice, first in
\* normal and then in upgrade mode; the second invocation is made exactly
\* when the first one failed with a dependency-changed signature in its
\* stderr: not after a success, not after another failure.
C23_InitRetriesOnce ==
    [][ AboutToVisit("init")
          => /\ Len(ext') <= 2
             /\ Len(ext') >= 1 => ext'[1] = ExtCall("init", context.tf, 0)
             /\ Len(ext') = 2 => ext'[2] = ExtCall("init -upgrade", context.tf, 0)
             /\ (VisitLogged /\ Last(attempts').stage = "init (retry)") => Len(ext') = 2
             /\ (VisitLogged /\ Last(attempts').stage = "init")
                  => /\ Len(ext') <= 1
                     /\ ~(~Last(attempts').success /\ DependencyChanged(Last(attempts').stderr))
             \* with the first and the second invocation behaving as x
             /\ \A x \in PlainTools.init :
                  \A o \in init_cb(context, session, files, workdir,
                                    [PlainTools EXCEPT !.init = {x}]) :
                      (Len(o.ext) = 2) <=>
                          /\ ~(session.init_done /\ session.last_hash = _content_hash(context.tf))
                          /\ ~x.timeout
                          /\ x.rc # 0
                          /\ DependencyChanged(x.stderr) ]_vars

\* an Init visit whose first invocation failed with the signature and whose
\* retry succeeded
C23_Witness ==
    /\ caller = "run_terraform"
    /\ attempts # << >>
    /\ Last(attempts).stage = "init (retry)"
    /\ Last(attempts).success
    /\ ext = << ExtCall("init", Last(attempts).tf, 0),
                ExtCall("init -upgrade", Last(attempts).tf, 0) >>

(***************************************************************************)
(* Claims about Apply's throwaway plan (checked under SpecTerraform).      *)
(***************************************************************************)
\* C24: an Apply visit whose last attempt in context is not a Plan result
\* first runs a plan.  When that plan fails Apply returns success=false and
\* runs no apply; when it reports no changes Apply returns a synthetic
\* success and runs no apply; only when it reports changes does Apply run
\* the external apply.
C24_ApplyPlansFirst ==
    [][ (AboutToVisit("apply") /\ context.last_attempt.stage # "plan")
          => /\ Len(ext') \in {1, 2}
             /\ ext'[1] = ExtCall("plan", context.tf, callbacks.parallelism)
             /\ Len(ext') = 2 => ext'[2] = ExtCall("apply", context.tf, callbacks.parallelism)
             /\ (VisitLogged /\ Len(ext') = 1)
                  => /\ Last(attempts').stage = "apply"
                     /\ Last(attempts').returncode = {}
                     /\ Last(attempts').success
                          => Last(attempts').stdout = "Apply skipped (no changes)."
             /\ (VisitLogged /\ Len(ext') = 2) => Last(attempts').returncode # {}
             \* with the throwaway plan behaving as x
             /\ \A x \in PlainTools.plan :
                  \A o \in apply_cb(context, session, files, workdir, callbacks.parallelism,
                                     [PlainTools EXCEPT !.plan = {x}]) :
                      /\ (Len(o.ext) = 2) <=> (~x.timeout /\ x.rc = 2)
                      /\ (~x.timeout /\ x.rc \notin {0, 2})
                           => ~o.raised /\ ~o.res.success /\ o.res.stderr = x.stderr
                      /\ (~x.timeout /\ x.rc = 0)
                           => ~o.raised /\ o.res.success /\ o.res.returncode = {} ]_vars

\* ApplyFirstGraph: Apply came right after Init, planned, found changes and
\* applied
C24_Witness ==
    /\ caller = "run_terraform"
    /\ Len(attempts) = 2
    /\ attempts[1].stage = "init"
    /\ attempts[2].stage = "apply"
    /\ attempts[2].success
    /\ attempts[2].returncode = {0}
    /\ ext = << ExtCall("plan", attempts[2].tf, DEFAULT_PARALLELISM),
                ExtCall("apply", attempts[2].tf, DEFAULT_PARALLELISM) >>

(***************************************************************************)
(* Claims about runs of execute_graph and their reports (checked under     *)
(* Spec, unless stated otherwise).                                         *)
(***************************************************************************)
\* the stages of the results of a log, in order
Stages(log) == [i \in 1 .. Len(log) |-> log[i].stage]
IsPrefix(a, b) == Len(a) <= Len(b) /\ \A i \in 1 .. Len(a) : a[i] = b[i]
\* every callback invoked so far in this run returned success=true
AllSucceeded == cbCalls = Len(attempts) /\ \A i \in 1 .. Len(attempts) : attempts[i].success

\* C25: on the graph INIT -> PLAN -(success)-> APPLY -(success)-> END, a run
\* in which every stage succeeds at its first try visits init, plan, apply
\* in this order and no heal node, and returns success=true with exactly
\* these 3 attempts.
C25_AllStagesSucceed ==
    (/\ caller = "direct"
     /\ graph.nodes = build_default_terraform_graph.nodes
     /\ graph.edges = build_default_terraform_graph.edges
     /\ AllSucceeded)
        => /\ healVisits = 0
           /\ pc # "raised"
           /\ IsPrefix(Stages(attempts), << "init", "plan", "apply" >>)
           /\ pc = "running" => Len(attempts) < 3 \/ NodeType(graph, current) = "end"
           /\ pc = "returned"
                => /\ report.success
                   /\ report.error = NoError
                   /\ Stages(report.attempts) = << "init", "plan", "apply" >>

\* the run of the default graph that returned after three successes
C25_Witness ==
    /\ caller = "direct"
    /\ graph = build_default_terraform_graph
    /\ pc = "returned"
    /\ AllSucceeded
    /\ report.success
    /\ Len(report.attempts) = 3

\* C26: on a graph in which every cycle passes through a heal-typed node
\* every run comes to an end, whatever the callbacks answer; on the default
\* graph with effective limit N the attempt log never has more than 1 + 3N
\* entries.  (Checked under SpecLive: a running loop takes its next
\* iteration.)
C26_HealBoundedRunsTerminate ==
    /\ [](graph.edges = build_default_terraform_graph.edges /\ max_attempts >= 1
            => Len(attempts) <= 1 + 3 * max_attempts)
    /\ [](AllCyclesThroughHeal(graph) => Len(attempts) < MaxVisits)
    /\ ((pc = "running" /\ AllCyclesThroughHeal(graph)) ~> (pc # "running"))

\* the default graph with limit 2 at its longest: INIT and twice PLAN, APPLY,
\* HEAL
C26_Witness ==
    /\ caller = "direct"
    /\ graph.edges = build_default_terraform_graph.edges
    /\ max_attempts = 2
    /\ pc = "returned"
    /\ Len(attempts) = 7
    /\ Stages(attempts) = << "init", "plan", "apply", "heal", "plan", "apply", "heal" >>

\* the logged results that directly follow a heal result: the retries a heal
\* led to
HealDrivenRetries(log) ==
    Cardinality({ i \in 2 .. Len(log) : log[i - 1].stage = "heal" /\ log[i].stage # "heal" })

\* C27: the heal visit that brings the counter to the limit N ends the run
\* at once with success=false and the budget error: its result is the last
\* one logged and is merged into the context, no callback is invoked after
\* it, and the run has made at most N-1 retries after a heal.
C27_NoStageAfterLastHeal ==
    (pc # "idle" /\ caller = "direct") =>
        /\ heal_cycles = StageCount(attempts, "heal")
        /\ HealDrivenRetries(attempts) <= max_attempts - 1
        /\ heal_cycles = max_attempts
             => /\ pc = "returned"
                /\ ~report.success
                /\ report.error.msg = "Max healing attempts reached"
                /\ report.attempts = attempts
                /\ Last(attempts).stage = "heal"
                /\ cbCalls = Len(attempts)
                /\ context.last_attempt = Last(attempts)
                /\ context.tf = Last(attempts).tf

\* the default graph with limit 2: the second heal returned tfB and ended the
\* run after one retry
C27_Witness ==
    /\ caller = "direct"
    /\ graph.edges = build_default_terraform_graph.edges
    /\ max_attempts = 2
    /\ heal_cycles = 2
    /\ pc = "returned"
    /\ Last(attempts).stage = "heal"
    /\ context.tf = "tfB"
    /\ HealDrivenRetries(attempts) = 1

\* C28: with the default graph and the canonical callbacks, a report with
\* success=true has an Apply result with success=true as its last attempt:
\* a real apply or a synthetic skip.  (Checked under SpecTerraform.)
C28_SuccessMeansApplied ==
    (/\ caller = "run_terraform"
     /\ graph = build_default_terraform_graph
     /\ pc \in {"returned", "finished"}
     /\ report.success)
        => /\ report.attempts # << >>
           /\ Last(report.attempts).stage = "apply"
           /\ Last(report.attempts).success
           /\ \/ Last(report.attempts).returncode = {0}
              \/ Last(report.attempts).stdout = "Apply skipped (no changes detected)."

\* a successful run whose Apply was skipped after a Plan without changes
C28_Witness ==
    /\ caller = "run_terraform"
    /\ graph = build_default_terraform_graph
    /\ pc = "finished"
    /\ report.success
    /\ Last(report.attempts).stdout = "Apply skipped (no changes detected)."

\* C29: in every report execute_graph returns, success is true exactly when
\* the run stopped at an end-typed node, and false exactly when the report
\* has an error.
C29_SuccessIffEndIffNoError ==
    pc = "returned" =>
        /\ report.success <=> (current \in NodeIds(graph) /\ NodeType(graph, current) = "end")
        /\ ~report.success <=> report.error # NoError
        /\ report.error # NoError => report.error.msg # EmptyStr

\* a run that stopped at a node without a matching edge
C29_Witness ==
    /\ pc = "returned"
    /\ ~report.success
    /\ report.error = Error("No edge route matched from node", current)
    /\ NodeType(graph, current) # "end"

\* C30: every callback invocation that returns appends exactly one result,
\* at the end of the log and without touching the earlier entries; a step
\* without callback invocation leaves the log as it is; while a run is going
\* on and when it has returned, the log is as long as the number of callback
\* invocations, and a returned report carries the whole log.
C30_OneResultPerVisit ==
    [][ /\ (cbCalls' = cbCalls + 1 /\ pc' # "raised")
             => /\ Len(attempts') = Len(attempts) + 1
                /\ SubSeq(attempts', 1, Len(attempts)) = attempts
                /\ Last(attempts').stage = NodeType(graph, current)
        /\ cbCalls' = cbCalls => attempts' = attempts
        /\ pc' \in {"running", "returned"} => cbCalls' = Len(attempts')
        /\ pc' = "returned" => report'.attempts = attempts' ]_vars

\* a run that ended at the healing budget with three results
C30_Witness ==
    /\ caller = "direct"
    /\ pc = "returned"
    /\ report.error.msg = "Max healing attempts reached"
    /\ cbCalls = 3
    /\ Stages(report.attempts) = << "heal", "apply", "heal" >>

\* the edges that leave node cur and match a result with success = ok, an
\* edge without condition counting as always and an unknown condition as
\* never matching
MatchingEdges(g, cur, ok) ==
    { i \in 1 .. Len(g.edges) : g.edges[i].from = cur /\ C6_Matches(g.edges[i], ok) }

\* C31: after a visit that did not end the run at the healing budget, the
\* run goes on exactly when an edge leaving the current node matches the
\* result; when none matches it returns success=false with the unroutable
\* error that names the current node, and the whole log.
C31_NoMatchingEdgeIsUnroutable ==
    [][ (/\ VisitLogged
         /\ ~(pc' = "returned" /\ report'.error.msg = "Max healing attempts reached"))
          => IF MatchingEdges(graph, current, Last(attempts').success) = {}
             THEN /\ pc' = "returned"
                  /\ ~report'.success
                  /\ report'.error = Error("No edge route matched from node", current)
                  /\ report'.attempts = attempts'
             ELSE pc' = "running" ]_vars

\* CustomTypeGraph: B failed, and its only other edge has the condition
\* "maybe"
C31_Witness ==
    /\ pc = "returned"
    /\ graph.nodes = CustomTypeGraph.nodes
    /\ report.error = Error("No edge route matched from node", "B")
    /\ ~Last(report.attempts).success

(***************************************************************************)
(* Claims about the workspace files (checked under SpecWorkspace).         *)
(***************************************************************************)
\* the callback of this step ran terraform init, plan or apply
ToolInvoked ==
    /\ caller = "run_terraform"
    /\ pc = "running"
    /\ cbCalls' = cbCalls + 1
    /\ ext' # << >>
    /\ ext'[1].cmd # "oracle"

\* C32: whenever terraform init, plan or apply is invoked, main.tf holds
\* the artifact of the stage's context and is the only *.tf / *.tf.json
\* file of the workspace, and main.tf, the lock file and the state files
\* that were there are still there.
C32_OnlyCanonicalArtifact ==
    [][ /\ ToolInvoked
             => /\ \A k \in 1 .. Len(ext') : ext'[k].tf = context.tf
                /\ files'[workdir] = context.tf
                /\ GlobArtifacts(listing'[workdir]) = {"main.tf"}
        /\ \A wd \in Workdirs : (listing[wd] \cap SAFE_KEEP) \subseteq listing'[wd] ]_vars

\* What holds of the workspace instead: main.tf holds the stage's artifact, every
\* artifact file whose removal did not fail is gone, and the files to keep
\* are kept.
SanitizedBeforeInvocation ==
    [][ /\ ToolInvoked
             => /\ \A k \in 1 .. Len(ext') : ext'[k].tf = context.tf
                /\ files'[workdir] = context.tf
                /\ GlobArtifacts(listing'[workdir]) \subseteq {"main.tf"} \cup Unremovable
                /\ "main.tf" \in listing'[workdir]
        /\ \A wd \in Workdirs : (listing[wd] \cap SAFE_KEEP) \subseteq listing'[wd] ]_vars

(***************************************************************************)
(* Claims about what Init records and what Heal returns.                   *)
(***************************************************************************)
\* C33: an Init visit writes the init flag and the recorded hash exactly
\* when it ran the external init and the last invocation succeeded; a visit
\* that fails, times out or is skipped as cached leaves both as they were.
\* (Checked under SpecTerraform.)
C33_InitRecordsOnlySuccess ==
    [][ AboutToVisit("init")
          => IF VisitLogged /\ Last(attempts').success /\ ext' # << >>
             THEN /\ session'.init_done
                  /\ session'.last_hash = _content_hash(context.tf)
                  /\ session' = [session EXCEPT !.init_done = TRUE,
                                                !.last_hash = _content_hash(context.tf)]
             ELSE session' = session ]_vars

\* ApplyFirstGraph: Init succeeded on tfA, Heal changed the artifact to tfB,
\* the second Init ran on tfB and failed, and the record is still that of tfA
C33_Witness ==
    /\ caller = "run_terraform"
    /\ Len(attempts) = 4
    /\ attempts[1].stage = "init" /\ attempts[1].success /\ attempts[1].tf = "tfA"
    /\ attempts[4].stage = "init" /\ ~attempts[4].success /\ attempts[4].tf = "tfB"
    /\ ext # << >>
    /\ session.init_done
    /\ session.last_hash = _content_hash("tfA")

\* the edges that leave node cur with condition success or always
SuccessEdges(g, cur) ==
    { i \in 1 .. Len(g.edges) :
        /\ g.edges[i].from = cur
        /\ Lower(IF g.edges[i].condition = Absent THEN "always" ELSE g.edges[i].condition)
              \in {"success", "always"} }

\* C34: the canonical Heal never raises and returns success=true, also when
\* the oracle failed; a run that goes on after Heal takes the first edge of
\* the heal node with condition success or always, never a failure edge.
\* (Checked under SpecOracle.)
C34_HealAlwaysSucceeds ==
    [][ AboutToVisit("heal")
          => /\ VisitLogged
             /\ Last(attempts').stage = "heal"
             /\ Last(attempts').success
             /\ pc' = "running"
                  => /\ SuccessEdges(graph, current) # {}
                     /\ \E i \in SuccessEdges(graph, current) :
                          /\ current' = graph.edges[i].to
                          /\ \A j \in SuccessEdges(graph, current) : i <= j
             /\ (pc' = "returned" /\ SuccessEdges(graph, current) # {})
                  => report'.error.msg = "Max healing attempts reached" ]_vars

\* HealEdgesGraph: the oracle failed, Heal returned its error text with
\* success=true, and the run went back to PLAN, not along the failure edge to
\* END
C34_Witness ==
    /\ caller = "run_terraform"
    /\ graph = HealEdgesGraph
    /\ pc = "running"
    /\ current = "PLAN"
    /\ attempts # << >>
    /\ Last(attempts).stage = "heal"
    /\ Last(attempts).success
    /\ Last(attempts).tf = ErrText

(***************************************************************************)
(* Claims about the parallelism of a run.                                  *)
(***************************************************************************)
\* C35: a run reads the parallelism hint once, when its callbacks are made;
\* every plan and apply invocation of the run passes that value, and a
\* reduction of the hint during the run changes the stored hint only.
\* (Checked under SpecThrottle.)
C35_ParallelismFixedPerRun ==
    [][ /\ (caller = "run_terraform" /\ pc = "running")
            => /\ callbacks'.parallelism = callbacks.parallelism
               /\ cbCalls' = cbCalls + 1
                    => \A k \in 1 .. Len(ext') :
                          ext'[k].cmd \in {"plan", "apply"}
                              => ext'[k].par = callbacks.parallelism
        /\ (pc # "running" /\ pc' = "running" /\ caller' = "run_terraform")
            => callbacks'.parallelism = session.tf_parallelism ]_vars

\* the micro-plan of an Apply visit was throttled and lowered the hint; the
\* apply that followed in the same visit still ran with the value read when
\* the run began
C35_Witness ==
    /\ caller = "run_terraform"
    /\ pc = "running"
    /\ Len(ext) = 2
    /\ ext[1].cmd = "plan" /\ ext[1].par = DEFAULT_PARALLELISM
    /\ ext[2].cmd = "apply" /\ ext[2].par = DEFAULT_PARALLELISM
    /\ callbacks.parallelism = DEFAULT_PARALLELISM
    /\ session.tf_parallelism = PARALLELISM_FLOOR

\* a later run begins with the lowered hint
C35_NextRunUsesHint ==
    /\ caller = "run_terraform"
    /\ pc = "running"
    /\ attempts = << >>
    /\ callbacks.parallelism = PARALLELISM_FLOOR

(***************************************************************************)
(* Claims about concurrent runs and about the linear pipeline.             *)
(***************************************************************************)
\* C36: nothing orders the steps of two runs on the shared workspace: the
\* tool invoked by a run reads the main.tf that the last writer left, which
\* is the other run's artifact when the other run wrote in between.
\* (Checked under SpecRace; the state the claim says is reachable is
\* C36_Witness.)
C36_ToolSeesLastWriter ==
    [][ \A s \in Sessions :
          Len(runs'[s].seen) = Len(runs[s].seen) + 1
            => /\ lastWriter \in Sessions
               /\ Last(runs'[s].seen).tf = runs[lastWriter].tf
               /\ Last(runs'[s].seen).tf = main_tf ]_vars

\* both runs are under way with different artifacts, and the plan or apply
\* that one of them invoked last ran on the artifact of the other
C36_Witness ==
    \E s \in Sessions :
        /\ runs[s].pc \in {"callback", "subprocess"}
        /\ runs[Other(s)].pc \in {"callback", "subprocess"}
        /\ runs[s].tf # runs[Other(s)].tf
        /\ runs[s].seen # << >>
        /\ Last(runs[s].seen).cmd \in {"plan", "apply"}
        /\ Last(runs[s].seen).tf = runs[Other(s)].tf

IsIncreasing(seq) == \A i, j \in 1 .. Len(seq) : i < j => seq[i] < seq[j]

\* the stage at which this call of run_pipeline broke out of its loop
Broke == ppc = "returned" /\ idx <= Len(pipeline_stages)

\* list order, the stop at the first failure and the two modes
PipelineOrderAndModes ==
    /\ IsIncreasing(executed)
    /\ \A k \in 1 .. Len(executed) :
          /\ mode = "failed_only" => entry[executed[k]] = "FAILED"
          /\ mode = "from_first_pending" => entry[executed[k]] # "SUCCESS"
    /\ Broke => /\ pipeline_stages[idx] = "FAILED"
                /\ executed # << >>
                /\ Last(executed) = idx
                /\ \A j \in idx + 1 .. Len(pipeline_stages) :
                      pipeline_stages[j] = entry[j]
    /\ ppc \in {"loop", "returned", "escaped"}
          => \A i \in 1 .. Len(pipeline_stages) :
                i \notin Range(executed) => pipeline_stages[i] = entry[i]

\* C37: run_pipeline executes the stages in list order and stops at the
\* first failure, the failing stage FAILED and the later stages as they
\* were; when it has returned no stage is RUNNING; failed_only executes
\* FAILED stages only and from_first_pending executes no SUCCESS stage.
\* (Checked under SpecPipeline.)
C37_LinearPipeline ==
    /\ PipelineOrderAndModes
    /\ ppc = "returned"
          => \A i \in 1 .. Len(pipeline_stages) : pipeline_stages[i] # "RUNNING"

\* What holds of RUNNING instead: a stage that is RUNNING when run_pipeline
\* has returned was RUNNING when the call began and was skipped by it.
NoStageLeftRunningByThisCall ==
    ppc = "returned"
      => \A i \in 1 .. Len(pipeline_stages) :
            pipeline_stages[i] = "RUNNING"
              => entry[i] = "RUNNING" /\ i \notin Range(executed)

====
